---- MODULE Spec2Model ----
(***************************************************************************)
(* Model of lv (kybin/lv), an image sequence viewer: src/lv.go.            *)
(*                                                                         *)
(* Two goroutines: main's window event loop (the presentation loop) and    *)
(* playFramer (the playback scheduler).  main sends events to playFramer   *)
(* on the unbuffered channel playEventChan; playFramer sends frameEvents   *)
(* back through the window's event queue (w.Send).                         *)
(*                                                                         *)
(* Time is a discrete clock `now` counted in units of 1/TimeDen second.    *)
(***************************************************************************)
EXTENDS Integers, Sequences, FiniteSets, TLC

\* ------------------------------------------------------------------ bounds
MaxSeqLen == 3      \* longest sequence given on the command line
MaxFps    == 2      \* largest -fps value tried, in frames per second
MaxTime   == 3      \* the clock stops advancing here
MaxCmds   == 2      \* keys that send an event, per session
MaxQueue  == 1      \* frameEvents a timer tick may leave waiting in the window queue

\* Clock units per second: fine enough that the tick period is at least one unit.
TimeDen == MaxFps

\* ------------------------------------------------------------- vocabulary
playRealTime   == "playRealTime"
playEveryFrame == "playEveryFrame"

unknownEvent        == "unknownEvent"
playPauseEvent      == "playPauseEvent"
seekNextEvent       == "seekNextEvent"
seekPrevEvent       == "seekPrevEvent"
seekNextFrameEvent  == "seekNextFrameEvent"
seekPrevFrameEvent  == "seekPrevFrameEvent"
playRealTimeEvent   == "playRealTimeEvent"
playEveryFrameEvent == "playEveryFrameEvent"

\* The events main sends on playEventChan.
SentEvents ==
  {playPauseEvent, seekNextEvent, seekPrevEvent, seekNextFrameEvent,
   seekPrevFrameEvent, playRealTimeEvent, playEveryFrameEvent}

\* playEventChan holds NoEvent when no send is pending.
NoEvent == "none"

\* The keys of main's key.Event case that send an event.
Keys == {"space", "left", "right", "comma", "period", "m"}

VARIABLES
  phase,      \* main: "startup", "running", "exited" (os.Exit) or "panicked"
  fps,        \* the -fps flag, a fraction <<numerator, denominator>>
  seqLen,     \* len(seq)
  now,        \* the wall clock
  eventCh,    \* playEventChan: the event main is blocked sending, or NoEvent
  mainMode,   \* main's mode
  drawFrame,  \* main's drawFrame
  frameQ,     \* frameEvents waiting in the window's event queue
  mode,       \* playFramer's mode
  playing,    \* playFramer's playing
  f,          \* playFramer's f
  start,      \* playFramer's start
  armed,      \* when playFramer entered its select (time.After was called)
  \* history variables
  lastStep,   \* what playFramer did last: "none", "event", "tick" or "idle"
  lastEvent,  \* the event playFramer received last
  lastEmit,   \* the frame playFramer sent last
  pre,        \* playFramer's f, playing, mode before its last receive, and the reconciled f
  anchorFrame,\* f after the last event was handled (0 at the start)
  anchorTime, \* the clock when the last event was handled
  ticksSince, \* ticks that sent a frame since the last event (since the start)
  tickPassed, \* the event that was waiting on playEventChan when the last tick was taken
  nSent,      \* how many events main has sent
  unreceived, \* the events main has sent and playFramer has not received, in order
  inOrder,    \* every receive so far took the oldest unreceived event
  \* main's viewport (float32 values unless noted)
  initWidth,  \* width of the first image
  initHeight, \* height of the first image
  winScale,   \* window size over image size, the smaller of the two axes
  boxScale,   \* zoom of the box that holds the image
  boxOffX,    \* offset of the box, as a fraction of the image width
  boxOffY,    \* offset of the box, as a fraction of the image height
  zooming,    \* BOOLEAN: the right button is held
  zoomCenterX,\* pointer x when the zoom began
  lastBoxScale, \* boxScale when the zoom began
  panning,    \* BOOLEAN: the middle button is held
  panCenterX, \* pointer x when the pan began
  panCenterY, \* pointer y when the pan began
  lastBoxOffX,\* boxOffX when the zoom or pan began
  lastBoxOffY,\* boxOffY when the zoom or pan began
  nPress,     \* history: button presses so far
  lastView,   \* history: the viewport handler main ran last
  preView     \* history: zooming and panning before that handler ran

vars ==
  <<phase, fps, seqLen, now, eventCh, mainMode, drawFrame, frameQ,
    mode, playing, f, start, armed,
    lastStep, lastEvent, lastEmit, pre, anchorFrame, anchorTime, ticksSince, tickPassed,
    nSent, unreceived, inOrder,
    initWidth, initHeight, winScale, boxScale, boxOffX, boxOffY, zooming, zoomCenterX,
    lastBoxScale, panning, panCenterX, panCenterY, lastBoxOffX, lastBoxOffY, nPress,
    lastView, preView>>

configVars == <<fps, seqLen>>
viewVars   ==
  <<initWidth, initHeight, winScale, boxScale, boxOffX, boxOffY, zooming, zoomCenterX,
    lastBoxScale, panning, panCenterX, panCenterY, lastBoxOffX, lastBoxOffY, nPress,
    lastView, preView>>
mainVars   == <<mainMode, drawFrame, viewVars>>
schedVars  == <<mode, playing, f, start, armed>>
histVars   == <<lastStep, lastEvent, lastEmit, pre, anchorFrame, anchorTime, ticksSince, tickPassed>>
chanVars   == <<nSent, unreceived, inOrder>>

\* --------------------------------------------------------------- arithmetic
\* Go's integer division and its float-to-int conversion truncate toward zero.
TruncDiv(a, b) ==
  IF (a >= 0) = (b > 0)
    THEN (IF a >= 0 THEN a ELSE 0 - a) \div (IF b > 0 THEN b ELSE 0 - b)
    ELSE 0 - ((IF a >= 0 THEN a ELSE 0 - a) \div (IF b > 0 THEN b ELSE 0 - b))

\* int(fps) and time.Duration(fps): the fraction r cut to a whole number.
IntFps(r) == TruncDiv(r[1], r[2])

\* int(time.Since(start).Seconds() * fps) at clock t.
ElapsedFrames(s, t, r) == TruncDiv((t - s) * r[1], r[2] * TimeDen)

\* if x >= seqLen { x %= seqLen }
WrapOffByOne(x, n) == IF x > n THEN x % n ELSE x
Wrap(x, n) == IF x >= n THEN x % n ELSE x

\* time.Second / time.Duration(fps), in clock units (a zero divisor panics).
Period(r) == TruncDiv(TimeDen, IntFps(r))

\* ------------------------------------------------------------------ float32
\* A float32 is [s |-> sign (0 or 1), m |-> mantissa, e |-> exponent], worth
\* (-1)^s * m * 2^e, with 2^23 <= m < 2^24, or m = 0 for zero (kept with
\* s = 0 and e = 0).  Every operation rounds to nearest, ties to even, as IEEE
\* 754 single precision does; the values of the model stay far from overflow
\* and from the subnormal range.  Intermediate values are kept below 2^31.
Two23 == 2^23
Two24 == 2^24
Two12 == 2^12

FZero == [s |-> 0, m |-> 0, e |-> 0]

\* Round a 24 bit mantissa given the next bit (half) and whether any lower bit
\* is set (sticky).
FRound(s, m, e, half, sticky) ==
  LET up == half = 1 /\ (sticky \/ m % 2 = 1)
      m1 == IF up THEN m + 1 ELSE m
  IN IF m1 = Two24 THEN [s |-> s, m |-> Two23, e |-> e + 1]
                   ELSE [s |-> s, m |-> m1, e |-> e]

\* The float32 worth exactly n * 2^e, for a whole number 0 <= n < 2^24.
RECURSIVE FScale(_, _, _)
FScale(s, n, e) ==
  IF n = 0 THEN FZero
  ELSE IF n >= Two23 THEN [s |-> s, m |-> n, e |-> e]
  ELSE FScale(s, 2 * n, e - 1)

\* float32(n) for a whole number n, |n| < 2^24.
FromInt(n) == IF n >= 0 THEN FScale(0, n, 0) ELSE FScale(1, 0 - n, 0)

FNeg(a) == IF a.m = 0 THEN a ELSE [a EXCEPT !.s = 1 - a.s]

\* a * b.  The 48 bit product of the mantissas is built from 12 bit halves as
\* hi * 2^24 + lo.
FMul(a, b) ==
  IF a.m = 0 \/ b.m = 0 THEN FZero
  ELSE
    LET a1 == a.m \div Two12
        a0 == a.m % Two12
        b1 == b.m \div Two12
        b0 == b.m % Two12
        mid == a1 * b0 + a0 * b1
        lofull == a0 * b0 + (mid % Two12) * Two12
        lo == lofull % Two24
        hi == a1 * b1 + (mid \div Two12) + (lofull \div Two24)
        s == (a.s + b.s) % 2
    IN IF hi >= Two23
         THEN FRound(s, hi, a.e + b.e + 24,
                     lo \div Two23, lo % Two23 # 0)
         ELSE FRound(s, 2 * hi + (lo \div Two23), a.e + b.e + 23,
                     (lo % Two23) \div (2^22), lo % (2^22) # 0)

\* k more bits of the quotient q of a long division by d, r the remainder so far.
RECURSIVE DivBits(_, _, _, _)
DivBits(r, d, k, q) ==
  IF k = 0 THEN [q |-> q, r |-> r]
  ELSE IF 2 * r >= d THEN DivBits(2 * r - d, d, k - 1, 2 * q + 1)
  ELSE DivBits(2 * r, d, k - 1, 2 * q)

\* a / b, for b other than zero.
FDiv(a, b) ==
  IF a.m = 0 THEN FZero
  ELSE
    LET s == (a.s + b.s) % 2
        big == a.m >= b.m
        qr == IF big THEN DivBits(a.m - b.m, b.m, 24, 1)
                     ELSE DivBits(a.m, b.m, 25, 0)
        \* qr.q holds the 24 bit mantissa and the bit after it
    IN FRound(s, qr.q \div 2, (IF big THEN a.e - b.e - 23 ELSE a.e - b.e - 24),
              qr.q % 2, qr.r # 0)

\* |a| < |b|, for a and b other than zero.
MagLess(a, b) == a.e < b.e \/ (a.e = b.e /\ a.m < b.m)

\* a < b.
FLess(a, b) ==
  CASE a.m = 0 /\ b.m = 0 -> FALSE
    [] a.m = 0 -> b.s = 0
    [] b.m = 0 -> a.s = 1
    [] a.s # b.s -> a.s = 1
    [] a.s = 0 -> MagLess(a, b)
    [] OTHER -> MagLess(b, a)

\* n shifted right by k bits, the bits shifted out kept as a set lowest bit.
ShiftSticky(n, k) ==
  IF k >= 28 THEN 1
  ELSE (n \div (2^k)) + (IF n % (2^k) # 0 /\ (n \div (2^k)) % 2 = 0 THEN 1 ELSE 0)

\* Round n * 2^e, n < 2^28 carrying three extra low bits, to a float32.
RECURSIVE FPack(_, _, _)
FPack(s, n, e) ==
  IF n = 0 THEN FZero
  ELSE IF n >= 2^27
    THEN FPack(s, ShiftSticky(n, 1), e + 1)
  ELSE IF n < 2^26
    THEN FPack(s, 2 * n, e - 1)
  ELSE FRound(s, n \div 8, e + 3, (n \div 4) % 2, n % 4 # 0)

\* a + b.
FAdd(a, b) ==
  IF a.m = 0 THEN b
  ELSE IF b.m = 0 THEN a
  ELSE
    LET x == IF MagLess(a, b) THEN b ELSE a     \* the larger magnitude
        y == IF MagLess(a, b) THEN a ELSE b
        xm == 8 * x.m
        ym == ShiftSticky(8 * y.m, x.e - y.e)
    IN IF x.s = y.s THEN FPack(x.s, xm + ym, x.e - 3)
                    ELSE FPack(x.s, xm - ym, x.e - 3)

FSub(a, b) == FAdd(a, FNeg(b))

\* The float32 nearest to p / q, for whole numbers p and q > 0 below 2^24: an
\* untyped constant such as 0.1 converted to float32.
FConst(p, q) == FDiv(FromInt(p), FromInt(q))

\* ------------------------------------------------------------ playFramer
\* Lines 365-370: f after the elapsed frames are added on receiving an event.
Reconciled(fr, pl, s, t, r, n) ==
  IF pl THEN Wrap(fr + ElapsedFrames(s, t, r), n) ELSE fr

\* HandleEvent with the frame steps forgetting to stop the player.
HandleEventStepKeepsPlaying(ev, st, r, n) ==
  CASE ev = playPauseEvent ->
         [st EXCEPT !.playing = ~st.playing]
    [] ev = seekPrevEvent ->
         [st EXCEPT !.f = IF st.f - IntFps(r) < 0 THEN 0 ELSE st.f - IntFps(r)]
    [] ev = seekNextEvent ->
         [st EXCEPT !.f = IF st.f + IntFps(r) >= n THEN n - 1 ELSE st.f + IntFps(r)]
    [] ev = seekPrevFrameEvent ->
         [st EXCEPT !.f = IF st.f - 1 < 0 THEN 0 ELSE st.f - 1]
    [] ev = seekNextFrameEvent ->
         [st EXCEPT !.f = IF st.f + 1 >= n THEN n - 1 ELSE st.f + 1]
    [] ev = playRealTimeEvent ->
         [st EXCEPT !.mode = playRealTime]
    [] ev = playEveryFrameEvent ->
         [st EXCEPT !.mode = playEveryFrame]
    [] OTHER -> st

\* Lines 373-408: the switch on the received event; st is [f, playing, mode].
HandleEvent(ev, st, r, n) ==
  CASE ev = playPauseEvent ->
         [st EXCEPT !.playing = ~st.playing]
    [] ev = seekPrevEvent ->
         [st EXCEPT !.f = IF st.f - IntFps(r) < 0 THEN 0 ELSE st.f - IntFps(r)]
    [] ev = seekNextEvent ->
         [st EXCEPT !.f = IF st.f + IntFps(r) >= n THEN n - 1 ELSE st.f + IntFps(r)]
    [] ev = seekPrevFrameEvent ->
         [st EXCEPT !.playing = FALSE,
                    !.f = IF st.f - 1 < 0 THEN 0 ELSE st.f - 1]
    [] ev = seekNextFrameEvent ->
         [st EXCEPT !.playing = FALSE,
                    !.f = IF st.f + 1 >= n THEN n - 1 ELSE st.f + 1]
    [] ev = playRealTimeEvent ->
         [st EXCEPT !.mode = playRealTime]
    [] ev = playEveryFrameEvent ->
         [st EXCEPT !.mode = playEveryFrame]
    [] OTHER -> st

\* Emit with the real-time branch storing the frame it sent and keeping start.
EmitDrift(md, fr, s, t, r, n) ==
  IF md = playRealTime
    THEN [f |-> Wrap(fr + ElapsedFrames(s, t, r), n), start |-> s,
          tf |-> Wrap(fr + ElapsedFrames(s, t, r), n)]
    ELSE [f |-> Wrap(fr + 1, n), start |-> t, tf |-> Wrap(fr + 1, n)]

\* Emit with the every-frame branch advancing by the elapsed time.
EmitEveryByTime(md, fr, s, t, r, n) ==
  IF md = playRealTime
    THEN [f |-> fr, start |-> s, tf |-> Wrap(fr + ElapsedFrames(s, t, r), n)]
    ELSE [f |-> Wrap(fr + ElapsedFrames(s, t, r), n), start |-> t,
          tf |-> Wrap(fr + ElapsedFrames(s, t, r), n)]

\* Lines 414-427: the frame to show, computed after the select unless the tick
\* found the player paused; gives the new f and start and the frame sent (tf).
Emit(md, fr, s, t, r, n) ==
  IF md = playRealTime
    THEN [f |-> fr, start |-> s, tf |-> Wrap(fr + ElapsedFrames(s, t, r), n)]
    ELSE [f |-> Wrap(fr + 1, n), start |-> t, tf |-> Wrap(fr + 1, n)]

\* The timer of `case <-time.After(...)` has fired: the period has passed since
\* the select was entered.
TimerExpired == now - armed >= Period(fps)

\* SchedRecv with w.Send waiting until main has taken the frameEvent before.
SchedRecvWaitsForWindow ==
  /\ phase = "running"
  /\ IntFps(fps) # 0
  /\ eventCh # NoEvent
  /\ frameQ = <<>>
  /\ LET r0  == Reconciled(f, playing, start, now, fps, seqLen)
         st1 == HandleEvent(eventCh, [f |-> r0, playing |-> playing, mode |-> mode],
                            fps, seqLen)
         em  == Emit(st1.mode, st1.f, now, now, fps, seqLen)
     IN /\ f' = em.f
        /\ start' = em.start
        /\ playing' = st1.playing
        /\ mode' = st1.mode
        /\ frameQ' = Append(frameQ, em.tf)
        /\ lastEmit' = em.tf
        /\ pre' = [f |-> f, playing |-> playing, mode |-> mode, r |-> r0]
        /\ anchorFrame' = em.f
  /\ armed' = now
  /\ eventCh' = NoEvent
  /\ lastStep' = "event"
  /\ lastEvent' = eventCh
  /\ anchorTime' = now
  /\ ticksSince' = 0
  /\ tickPassed' = NoEvent
  /\ inOrder' = (inOrder /\ unreceived # <<>> /\ Head(unreceived) = eventCh)
  /\ unreceived' = IF unreceived = <<>> THEN <<>> ELSE Tail(unreceived)
  /\ UNCHANGED <<phase, configVars, now, mainVars, nSent>>

\* case ev := <-eventCh (lines 364-408), then lines 414-428.
SchedRecv ==
  /\ phase = "running"
  /\ IntFps(fps) # 0
  /\ eventCh # NoEvent
  /\ LET r0  == Reconciled(f, playing, start, now, fps, seqLen)
         st1 == HandleEvent(eventCh, [f |-> r0, playing |-> playing, mode |-> mode],
                            fps, seqLen)
         em  == Emit(st1.mode, st1.f, now, now, fps, seqLen)
     IN /\ f' = em.f
        /\ start' = em.start
        /\ playing' = st1.playing
        /\ mode' = st1.mode
        /\ frameQ' = Append(frameQ, em.tf)
        /\ lastEmit' = em.tf
        /\ pre' = [f |-> f, playing |-> playing, mode |-> mode, r |-> r0]
        /\ anchorFrame' = em.f
  /\ armed' = now
  /\ eventCh' = NoEvent
  /\ lastStep' = "event"
  /\ lastEvent' = eventCh
  /\ anchorTime' = now
  /\ ticksSince' = 0
  /\ tickPassed' = NoEvent
  /\ inOrder' = (inOrder /\ unreceived # <<>> /\ Head(unreceived) = eventCh)
  /\ unreceived' = IF unreceived = <<>> THEN <<>> ELSE Tail(unreceived)
  /\ UNCHANGED <<phase, configVars, now, mainVars, nSent>>

\* SchedTick with the tick also taking the waiting event off the channel, unhandled.
SchedTickDrainsEvent ==
  /\ phase = "running"
  /\ IntFps(fps) # 0
  /\ TimerExpired
  /\ playing
  /\ Len(frameQ) < MaxQueue
  /\ ticksSince < MaxTime
  /\ LET em == Emit(mode, f, start, now, fps, seqLen)
     IN /\ f' = em.f
        /\ start' = em.start
        /\ frameQ' = Append(frameQ, em.tf)
        /\ lastEmit' = em.tf
  /\ armed' = now
  /\ lastStep' = "tick"
  /\ ticksSince' = ticksSince + 1
  /\ tickPassed' = eventCh
  /\ UNCHANGED <<phase, configVars, now, mainVars, mode, playing,
                 lastEvent, pre, anchorFrame, anchorTime, nSent, inOrder>>
  /\ eventCh' = NoEvent
  /\ unreceived' = <<>>

\* case <-time.After(...) while playing (line 409), then lines 414-428.
SchedTick ==
  /\ phase = "running"
  /\ IntFps(fps) # 0
  /\ TimerExpired
  /\ playing
  /\ Len(frameQ) < MaxQueue
  /\ ticksSince < MaxTime
  /\ LET em == Emit(mode, f, start, now, fps, seqLen)
     IN /\ f' = em.f
        /\ start' = em.start
        /\ frameQ' = Append(frameQ, em.tf)
        /\ lastEmit' = em.tf
  /\ armed' = now
  /\ lastStep' = "tick"
  /\ ticksSince' = ticksSince + 1
  /\ tickPassed' = eventCh
  /\ UNCHANGED <<phase, configVars, now, eventCh, mainVars, mode, playing,
                 lastEvent, pre, anchorFrame, anchorTime, chanVars>>

\* SchedIdleTick without the continue: the paused tick goes on to lines 414-428.
SchedIdleTickEmits ==
  /\ phase = "running"
  /\ IntFps(fps) # 0
  /\ TimerExpired
  /\ ~playing
  /\ Len(frameQ) < MaxQueue
  /\ LET em == Emit(mode, f, start, now, fps, seqLen)
     IN /\ f' = em.f
        /\ start' = em.start
        /\ frameQ' = Append(frameQ, em.tf)
        /\ lastEmit' = em.tf
  /\ armed' = now
  /\ lastStep' = "idle"
  /\ tickPassed' = eventCh
  /\ UNCHANGED <<phase, configVars, now, eventCh, mainVars, mode, playing,
                 lastEvent, pre, anchorFrame, anchorTime, ticksSince, chanVars>>

\* case <-time.After(...) while paused (lines 409-412): continue.
SchedIdleTick ==
  /\ phase = "running"
  /\ IntFps(fps) # 0
  /\ TimerExpired
  /\ ~playing
  /\ armed' = now
  /\ lastStep' = "idle"
  /\ tickPassed' = eventCh
  /\ UNCHANGED <<phase, configVars, now, eventCh, mainVars, frameQ, mode, playing, f, start,
                 lastEvent, lastEmit, pre, anchorFrame, anchorTime, ticksSince,
                 chanVars>>

\* ------------------------------------------------------------------ main
\* Lines 148-171: the event a key sends, given main's mode.
KeyEvent(k, md) ==
  CASE k = "space"  -> playPauseEvent
    [] k = "left"   -> seekPrevEvent
    [] k = "right"  -> seekNextEvent
    [] k = "comma"  -> seekPrevFrameEvent
    [] k = "period" -> seekNextFrameEvent
    [] k = "m"      -> IF md = playRealTime THEN playEveryFrameEvent ELSE playRealTimeEvent

\* KeyMode with main's own mode never toggled.
KeyModeKeeps(k, md) == md

\* Lines 164-170: main's mode after a key.
KeyMode(k, md) ==
  IF k = "m"
    THEN (IF md = playRealTime THEN playEveryFrame ELSE playRealTime)
    ELSE md

\* Lines 72-79: no input given; usage and os.Exit(1).
MainUsageExit ==
  /\ phase = "startup"
  /\ seqLen = 0
  /\ phase' = "exited"
  /\ UNCHANGED <<configVars, now, eventCh, mainVars, frameQ, schedVars, histVars, chanVars>>

\* Lines 83-105: the window is made and playFramer started.
MainStart ==
  /\ phase = "startup"
  /\ seqLen > 0
  /\ phase' = "running"
  /\ UNCHANGED <<configVars, now, eventCh, mainVars, frameQ, schedVars, histVars, chanVars>>

\* Lines 144-171: a key press that sends an event; the send blocks main until
\* playFramer receives.
KeyPress(k) ==
  /\ phase = "running"
  /\ eventCh = NoEvent
  /\ nSent < MaxCmds
  /\ eventCh' = KeyEvent(k, mainMode)
  /\ mainMode' = KeyMode(k, mainMode)
  /\ nSent' = nSent + 1
  /\ unreceived' = Append(unreceived, KeyEvent(k, mainMode))
  /\ UNCHANGED <<phase, configVars, now, drawFrame, viewVars, frameQ, schedVars, histVars, inOrder>>

\* Lines 230-256: main takes a frameEvent from the window queue and looks up
\* texs[drawFrame]; an index out of range panics.
MainFrameEvent ==
  /\ phase = "running"
  /\ eventCh = NoEvent
  /\ frameQ # <<>>
  /\ drawFrame' = Head(frameQ)
  /\ frameQ' = Tail(frameQ)
  /\ phase' = IF Head(frameQ) \in 0..(seqLen - 1) THEN "running" ELSE "panicked"
  /\ UNCHANGED <<configVars, now, eventCh, mainMode, viewVars, schedVars, histVars, chanVars>>

\* Time passes.
Advance ==
  /\ phase = "running"
  /\ now < MaxTime
  /\ now' = now + 1
  /\ UNCHANGED <<phase, configVars, eventCh, mainVars, frameQ, schedVars, histVars, chanVars>>

\* -------------------------------------------------------------- viewport
\* Bounds of the viewport model.
MaxPress == 2       \* mouse button presses per session

\* Pointer positions, window sizes and the size of the first image tried.
PointerXs  == {0, 100, 125}
PointerYs  == {0, 50}
WindowSizes == {<<200, 100>>, <<100, 100>>}
ImageSizes == {<<200, 100>>}

\* The untyped constant 0.1 as a float32.
Tenth == FConst(1, 10)
FOne  == FromInt(1)

\* fit(v, smin, smax, dmin, dmax): v mapped linearly from [smin, smax] onto
\* [dmin, dmax], clamped to the ends outside.
Fit(v, smin, smax, dmin, dmax) ==
  LET t  == FDiv(FSub(v, smin), FSub(smax, smin))
      tc == IF FLess(t, FZero) THEN FZero
            ELSE IF FLess(FOne, t) THEN FOne ELSE t
  IN FAdd(dmin, FMul(tc, FSub(dmax, dmin)))

\* Line 205: z := fit(dx, -100, 300, 0, 4).
ZoomCurve(dx) == Fit(dx, FromInt(0 - 100), FromInt(300), FZero, FromInt(4))

\* Lines 206-209: the multiplier after the floor on the scale.
ZoomFactor(last, z) ==
  IF FLess(FMul(last, z), Tenth) THEN FDiv(Tenth, last) ELSE z

\* Everything but the viewport.
playVars ==
  <<phase, configVars, now, eventCh, mainMode, drawFrame, frameQ, schedVars,
    histVars, chanVars>>

\* KeyFit with the offsets left as they are.
KeyFitKeepsOffsets ==
  /\ phase = "running"
  /\ eventCh = NoEvent
  /\ boxScale' = FOne
  /\ UNCHANGED <<initWidth, initHeight, winScale, boxOffX, boxOffY, zooming, zoomCenterX,
                 lastBoxScale, panning, panCenterX, panCenterY, lastBoxOffX, lastBoxOffY,
                 nPress>>
  /\ lastView' = "fit"
  /\ preView' = [zooming |-> zooming, panning |-> panning]
  /\ UNCHANGED playVars

\* Lines 172-176: the f key.
KeyFit ==
  /\ phase = "running"
  /\ eventCh = NoEvent
  /\ boxScale' = FOne
  /\ boxOffX' = FZero
  /\ boxOffY' = FZero
  /\ UNCHANGED <<initWidth, initHeight, winScale, zooming, zoomCenterX, lastBoxScale,
                 panning, panCenterX, panCenterY, lastBoxOffX, lastBoxOffY, nPress>>
  /\ lastView' = "fit"
  /\ preView' = [zooming |-> zooming, panning |-> panning]
  /\ UNCHANGED playVars

\* RightPress with a pan in progress left on.
RightPressKeepsPan(x) ==
  /\ phase = "running"
  /\ eventCh = NoEvent
  /\ nPress < MaxPress
  /\ nPress' = nPress + 1
  /\ zooming' = TRUE
  /\ zoomCenterX' = FromInt(x)
  /\ lastBoxScale' = boxScale
  /\ lastBoxOffX' = boxOffX
  /\ lastBoxOffY' = boxOffY
  /\ UNCHANGED <<initWidth, initHeight, winScale, boxScale, boxOffX, boxOffY,
                 panning, panCenterX, panCenterY>>
  /\ lastView' = "zoomBegin"
  /\ preView' = [zooming |-> zooming, panning |-> panning]
  /\ UNCHANGED playVars

\* Lines 180-187: the right button pressed at x.
RightPress(x) ==
  /\ phase = "running"
  /\ eventCh = NoEvent
  /\ nPress < MaxPress
  /\ nPress' = nPress + 1
  /\ zooming' = TRUE
  /\ panning' = FALSE
  /\ zoomCenterX' = FromInt(x)
  /\ lastBoxScale' = boxScale
  /\ lastBoxOffX' = boxOffX
  /\ lastBoxOffY' = boxOffY
  /\ UNCHANGED <<initWidth, initHeight, winScale, boxScale, boxOffX, boxOffY,
                 panCenterX, panCenterY>>
  /\ lastView' = "zoomBegin"
  /\ preView' = [zooming |-> zooming, panning |-> panning]
  /\ UNCHANGED playVars

\* Lines 188-190: the right button released.
RightRelease ==
  /\ phase = "running"
  /\ eventCh = NoEvent
  /\ zooming' = FALSE
  /\ UNCHANGED <<initWidth, initHeight, winScale, boxScale, boxOffX, boxOffY, zoomCenterX,
                 lastBoxScale, panning, panCenterX, panCenterY, lastBoxOffX, lastBoxOffY,
                 nPress>>
  /\ lastView' = "zoomEnd"
  /\ preView' = [zooming |-> zooming, panning |-> panning]
  /\ UNCHANGED playVars

\* Lines 191-198: the middle button pressed at (x, y).
MiddlePress(x, y) ==
  /\ phase = "running"
  /\ eventCh = NoEvent
  /\ nPress < MaxPress
  /\ nPress' = nPress + 1
  /\ panning' = TRUE
  /\ zooming' = FALSE
  /\ panCenterX' = FromInt(x)
  /\ panCenterY' = FromInt(y)
  /\ lastBoxOffX' = boxOffX
  /\ lastBoxOffY' = boxOffY
  /\ UNCHANGED <<initWidth, initHeight, winScale, boxScale, boxOffX, boxOffY,
                 zoomCenterX, lastBoxScale>>
  /\ lastView' = "panBegin"
  /\ preView' = [zooming |-> zooming, panning |-> panning]
  /\ UNCHANGED playVars

\* Lines 199-201: the middle button released.
MiddleRelease ==
  /\ phase = "running"
  /\ eventCh = NoEvent
  /\ panning' = FALSE
  /\ UNCHANGED <<initWidth, initHeight, winScale, boxScale, boxOffX, boxOffY, zooming,
                 zoomCenterX, lastBoxScale, panCenterX, panCenterY, lastBoxOffX,
                 lastBoxOffY, nPress>>
  /\ lastView' = "panEnd"
  /\ preView' = [zooming |-> zooming, panning |-> panning]
  /\ UNCHANGED playVars

\* Lines 202-218: the pointer moved to (x, y).
MouseMove(x, y) ==
  /\ phase = "running"
  /\ eventCh = NoEvent
  /\ IF zooming
       THEN LET dx == FSub(FromInt(x), zoomCenterX)
                z  == ZoomFactor(lastBoxScale, ZoomCurve(dx))
            IN /\ boxOffX' = FMul(lastBoxOffX, z)
               /\ boxOffY' = FMul(lastBoxOffY, z)
               /\ boxScale' = FMul(lastBoxScale, z)
       ELSE IF panning
         THEN LET dx == FSub(FromInt(x), panCenterX)
                  dy == FSub(FromInt(y), panCenterY)
              IN /\ boxOffX' = FAdd(lastBoxOffX, FDiv(FDiv(dx, initWidth), winScale))
                 /\ boxOffY' = FAdd(lastBoxOffY, FDiv(FDiv(dy, initHeight), winScale))
                 /\ boxScale' = boxScale
         ELSE UNCHANGED <<boxScale, boxOffX, boxOffY>>
  /\ UNCHANGED <<initWidth, initHeight, winScale, zooming, zoomCenterX, lastBoxScale,
                 panning, panCenterX, panCenterY, lastBoxOffX, lastBoxOffY, nPress>>
  /\ lastView' = "move"
  /\ preView' = [zooming |-> zooming, panning |-> panning]
  /\ UNCHANGED playVars

\* Lines 221-228: the window resized to w by h pixels.
SizeEvent(w, h) ==
  /\ phase = "running"
  /\ eventCh = NoEvent
  /\ LET ws == FDiv(FromInt(w), initWidth)
         hs == FDiv(FromInt(h), initHeight)
     IN winScale' = IF FLess(hs, ws) THEN hs ELSE ws
  /\ UNCHANGED <<initWidth, initHeight, boxScale, boxOffX, boxOffY, zooming, zoomCenterX,
                 lastBoxScale, panning, panCenterX, panCenterY, lastBoxOffX, lastBoxOffY,
                 nPress>>
  /\ lastView' = "size"
  /\ preView' = [zooming |-> zooming, panning |-> panning]
  /\ UNCHANGED playVars

\* ------------------------------------------------------------ specification
InitCommon ==
  /\ phase = "startup"
  /\ seqLen \in 0..MaxSeqLen
  /\ now = 0
  /\ eventCh = NoEvent
  /\ mainMode = playRealTime
  /\ drawFrame = 0
  /\ frameQ = <<>>
  /\ mode = playRealTime
  /\ playing = TRUE
  /\ f = 0
  /\ start = 0
  /\ armed = 0
  /\ lastStep = "none"
  /\ lastEvent = NoEvent
  /\ lastEmit = 0
  /\ pre = [f |-> 0, playing |-> TRUE, mode |-> playRealTime, r |-> 0]
  /\ anchorFrame = 0
  /\ anchorTime = 0
  /\ ticksSince = 0
  /\ tickPassed = NoEvent
  /\ nSent = 0
  /\ unreceived = <<>>
  /\ inOrder = TRUE
  /\ \E sz \in ImageSizes :
       /\ initWidth = FromInt(sz[1])
       /\ initHeight = FromInt(sz[2])
  /\ winScale = FOne
  /\ boxScale = FOne
  /\ boxOffX = FZero
  /\ boxOffY = FZero
  /\ zooming = FALSE
  /\ zoomCenterX = FZero
  /\ lastBoxScale = FOne
  /\ panning = FALSE
  /\ panCenterX = FZero
  /\ panCenterY = FZero
  /\ lastBoxOffX = FZero
  /\ lastBoxOffY = FZero
  /\ nPress = 0
  /\ lastView = "none"
  /\ preView = [zooming |-> FALSE, panning |-> FALSE]

\* The frame rates tried, in halves: 1, 1.5, 2, ... MaxFps.
FpsValues == {<<k, 2>> : k \in 2..(2 * MaxFps)}

\* Frame rates of zero and below, in halves.
BadFpsValues == {<<0 - k, 2>> : k \in 0..(2 * MaxFps)}

\* Sessions with a frame rate of at least one frame per second.
Init ==
  /\ InitCommon
  /\ fps \in FpsValues

Next ==
  \/ MainUsageExit
  \/ MainStart
  \/ \E k \in Keys : KeyPress(k)
  \/ MainFrameEvent
  \/ SchedRecv
  \/ SchedTick
  \/ SchedIdleTick
  \/ Advance

Spec == Init /\ [][Next]_vars

\* Line 409 with time.Duration(fps) = 0: the division panics and the process dies.
SchedPanic ==
  /\ phase = "running"
  /\ IntFps(fps) = 0
  /\ phase' = "panicked"
  /\ UNCHANGED <<configVars, now, eventCh, mainVars, frameQ, schedVars, histVars, chanVars>>

\* Sessions of a two-frame sequence at the highest frame rate.
InitFair ==
  /\ InitCommon
  /\ seqLen = 2
  /\ fps = <<2 * MaxFps, 2>>

NextFair ==
  \/ MainStart
  \/ \E k \in Keys : KeyPress(k)
  \/ MainFrameEvent
  \/ SchedRecv
  \/ SchedTick
  \/ SchedIdleTick
  \/ Advance

\* These sessions with the receive taken eventually once an event waits: Go's
\* select chooses among its ready cases at random, so a waiting send is not
\* passed over forever.
SpecFair == InitFair /\ [][NextFair]_vars /\ WF_vars(SchedRecv)

\* Sessions started with -fps zero or negative: main checks only len(seq).
InitBadFps ==
  /\ InitCommon
  /\ fps \in BadFpsValues

NextBadFps == Next \/ SchedPanic

\* The viewport alone: its variables are written by main's key, mouse and size
\* events only, and those read nothing of the playback state.
InitView ==
  /\ InitCommon
  /\ fps = <<2, 2>>
  /\ seqLen = 1

NextView ==
  \/ MainStart
  \/ KeyFit
  \/ \E x \in PointerXs : RightPress(x)
  \/ RightRelease
  \/ \E x \in PointerXs, y \in PointerYs : MiddlePress(x, y)
  \/ MiddleRelease
  \/ \E x \in PointerXs, y \in PointerYs : MouseMove(x, y)
  \/ \E sz \in WindowSizes : SizeEvent(sz[1], sz[2])

SpecView == InitView /\ [][NextView]_vars

\* The gestures over fewer pointer positions and one window size.
GestureXs == {0, 100}
GestureYs == {0, 50}
GestureSizes == {<<100, 100>>}

NextGesture ==
  \/ MainStart
  \/ KeyFit
  \/ \E x \in GestureXs : RightPress(x)
  \/ RightRelease
  \/ \E x \in GestureXs, y \in GestureYs : MiddlePress(x, y)
  \/ MiddleRelease
  \/ \E x \in GestureXs, y \in GestureYs : MouseMove(x, y)
  \/ \E sz \in GestureSizes : SizeEvent(sz[1], sz[2])

SpecGesture == InitView /\ [][NextGesture]_vars

SpecBadFps == InitBadFps /\ [][NextBadFps]_vars

\* ------------------------------------------------------------------ claims
Min(a, b) == IF a <= b THEN a ELSE b
Max(a, b) == IF a >= b THEN a ELSE b

StepEvents == {seekPrevFrameEvent, seekNextFrameEvent}

\* C1: with a sequence of at least one frame, playFramer's f is in
\* [0, seqLen) in every reachable state.
C1_FrameInRange == seqLen > 0 => (f >= 0 /\ f < seqLen)

\* C1 witness: an event was received after f had been reconciled past the end
\* of the sequence and wrapped.
C1_Witness ==
  /\ lastStep = "event"
  /\ pre.playing
  /\ pre.r < pre.f
  /\ seqLen > 1
  /\ f < seqLen

\* C2: in real-time mode the frame a tick sends is the frame stored when the
\* last event was handled (0 at the start) plus the whole frames of the time
\* since then, modulo seqLen, however many ticks came in between.
C2_RealTimeFrame ==
  (phase = "running" /\ lastStep = "tick" /\ mode = playRealTime)
    => lastEmit = (anchorFrame + (((armed - anchorTime) * fps[1]) \div (fps[2] * TimeDen)))
                    % seqLen

\* C2 witness: the third tick in a row, past the end of the sequence, on a
\* frame other than the stored one.
C2_Witness ==
  /\ lastStep = "tick"
  /\ mode = playRealTime
  /\ ticksSince >= 3
  /\ anchorFrame + (((armed - anchorTime) * fps[1]) \div (fps[2] * TimeDen)) >= seqLen
  /\ lastEmit # anchorFrame

\* C3: in every-frame mode each tick advances f by one modulo seqLen and sends
\* it: after N ticks since the last event f is N steps on, whatever time passed.
C3_EveryFrameSteps ==
  (phase = "running" /\ lastStep = "tick" /\ mode = playEveryFrame)
    => (f = (anchorFrame + ticksSince) % seqLen /\ lastEmit = f)

\* C3 witness: two ticks in every-frame mode that wrapped, with more time
\* passed than two tick periods.
C3_Witness ==
  /\ lastStep = "tick"
  /\ mode = playEveryFrame
  /\ ticksSince = 2
  /\ anchorFrame + ticksSince >= seqLen
  /\ seqLen > 1
  /\ armed - anchorTime > 2 * Period(fps)

\* C4: after seekPrevFrameEvent or seekNextFrameEvent is handled, playing is false.
C4_StepPauses ==
  (lastStep = "event" /\ lastEvent \in StepEvents) => ~playing

\* C4 witness: a frame step received while playing in every-frame mode.
C4_Witness ==
  /\ lastStep = "event"
  /\ lastEvent \in StepEvents
  /\ pre.playing
  /\ pre.mode = playEveryFrame
  /\ ~playing

\* C5 (as claimed): after a frame step the stored and the sent frame are the
\* reconciled frame plus one (minus one), clamped to [0, seqLen - 1], in both modes.
C5_StepByOneClamped ==
  /\ (lastStep = "event" /\ lastEvent = seekNextFrameEvent)
       => (f = Min(pre.r + 1, seqLen - 1) /\ lastEmit = f)
  /\ (lastStep = "event" /\ lastEvent = seekPrevFrameEvent)
       => (f = Max(pre.r - 1, 0) /\ lastEmit = f)

\* C6 (as claimed): after a seek the stored and the sent frame are the
\* reconciled frame plus (minus) fps, clamped to [0, seqLen - 1], in both
\* modes, and playing is as it was.
C6_SeekByFpsClamped ==
  /\ (lastStep = "event" /\ lastEvent = seekNextEvent)
       => (/\ fps[2] * f = Min(fps[2] * pre.r + fps[1], fps[2] * (seqLen - 1))
           /\ lastEmit = f
           /\ playing = pre.playing)
  /\ (lastStep = "event" /\ lastEvent = seekPrevEvent)
       => (/\ fps[2] * f = Max(fps[2] * pre.r - fps[1], 0)
           /\ lastEmit = f
           /\ playing = pre.playing)

\* The channel holds exactly the events sent and not yet received (at most
\* one), each receive took the oldest of them, and a waiting event can be received.
ChanSafe ==
  /\ inOrder
  /\ Len(unreceived) <= 1
  /\ (eventCh = NoEvent <=> unreceived = <<>>)
  /\ (eventCh # NoEvent => (unreceived = <<eventCh>> /\ ENABLED SchedRecv))

\* C7: no event main sends is lost, duplicated or reordered, and every send
\* is received: main is never blocked forever.
C7_NoEventLost == []ChanSafe /\ ((eventCh # NoEvent) ~> (eventCh = NoEvent))

\* C7 witness: a second event waits on the channel while a frameEvent main has
\* not taken is still in the window queue.
C7_Witness ==
  /\ nSent = 2
  /\ eventCh # NoEvent
  /\ frameQ # <<>>
  /\ inOrder

\* An event waits on playEventChan and the timer has fired.
BothReady == phase = "running" /\ eventCh # NoEvent /\ TimerExpired

\* C8 (as claimed): with an event waiting and the timer fired, playFramer's
\* next step is the receive, never the tick.
C8_EventBeforeTick == [][BothReady => ~(SchedTick \/ SchedIdleTick)]_vars

\* C8 (amended): with both ready playFramer may take either; a tick taken
\* first leaves the waiting event on the channel, unchanged.
C8_TickKeepsEvent ==
  [][(BothReady /\ (SchedTick \/ SchedIdleTick))
       => (eventCh' = eventCh /\ unreceived' = unreceived)]_vars

\* C8 witness: a tick was taken while an event waited, and the event still waits.
C8_Witness ==
  /\ lastStep = "tick"
  /\ tickPassed # NoEvent
  /\ eventCh = tickPassed

\* C9 (as claimed): with fps <= 0 the process exits at startup: playFramer
\* never runs and nothing fails at run time.
C9_BadFpsRejected ==
  fps[1] <= 0 => (phase \in {"startup", "exited"} /\ lastStep = "none")

\* C10 (as claimed): boxScale is at least 0.1 in every reachable state.
C10_ScaleFloor == ~FLess(boxScale, Tenth)

\* C11: zooming and panning are never both true, and a button press that
\* begins one gesture leaves the other one off.
C11_OneGesture ==
  /\ ~(zooming /\ panning)
  /\ lastView = "zoomBegin" => (zooming /\ ~panning)
  /\ lastView = "panBegin" => (panning /\ ~zooming)

\* C11 witness: the right button was pressed during a pan; the zoom is on and
\* the pan is off.
C11_Witness ==
  /\ lastView = "zoomBegin"
  /\ preView.panning
  /\ zooming
  /\ ~panning

\* C12 (as claimed): a pointer move during a zoom sets boxScale, boxOffX and
\* boxOffY to their values at the start of the zoom times one multiplier m: the
\* curve value of the pointer's distance from where the zoom began, or
\* 0.1 / lastBoxScale when the curve value would bring the scale under 0.1,
\* and then boxScale is exactly 0.1.
C12_ZoomSameMultiplier ==
  [][\A x \in PointerXs, y \in PointerYs :
       (zooming /\ MouseMove(x, y)) =>
         LET c     == ZoomCurve(FSub(FromInt(x), zoomCenterX))
             floor == FLess(FMul(lastBoxScale, c), Tenth)
             m     == IF floor THEN FDiv(Tenth, lastBoxScale) ELSE c
         IN /\ boxScale' = FMul(lastBoxScale, m)
            /\ boxOffX' = FMul(lastBoxOffX, m)
            /\ boxOffY' = FMul(lastBoxOffY, m)
            /\ (floor => boxScale' = Tenth)]_vars

\* C13: after the f key boxScale is 1 and both offsets are 0, whatever the
\* viewport was and whether or not a zoom or a pan is in progress.
C13_FitResets ==
  lastView = "fit" => (boxScale = FOne /\ boxOffX = FZero /\ boxOffY = FZero)

\* C13 witness: the f key pressed during a zoom that began at offsets other
\* than zero.
C13_Witness ==
  /\ lastView = "fit"
  /\ zooming
  /\ lastBoxOffX # FZero
  /\ lastBoxOffY # FZero
  /\ boxScale = FOne
  /\ boxOffX = FZero

\* A timer tick of playFramer, playing or paused.
Tick == SchedTick \/ SchedIdleTick

\* C14: a tick taken while playing is false sends no frameEvent and leaves f,
\* mode, playing and start as they were, in both modes.
C14_PausedTickNoEffect ==
  [][(~playing /\ Tick) => UNCHANGED <<f, mode, playing, start, frameQ, lastEmit>>]_vars

\* C14 witness: a tick was taken while paused in every-frame mode, some time
\* after the event that paused, with no frameEvent waiting.
C14_Witness ==
  /\ lastStep = "idle"
  /\ ~playing
  /\ mode = playEveryFrame
  /\ frameQ = <<>>
  /\ armed > anchorTime

\* C15: in real-time mode a tick sends a frame and leaves f and start as they
\* were; f and start change only when an event is received.
C15_RealTimeTickKeeps ==
  [][/\ (mode = playRealTime /\ SchedTick)
          => (UNCHANGED <<f, start>> /\ frameQ' = Append(frameQ, lastEmit'))
     /\ (mode = playRealTime /\ ~SchedRecv) => UNCHANGED <<f, start>>]_vars

\* C15 witness: a real-time tick sent a frame other than the stored f, and f
\* and start are still what the last event left.
C15_Witness ==
  /\ lastStep = "tick"
  /\ mode = playRealTime
  /\ lastEmit # f
  /\ f = anchorFrame
  /\ start = anchorTime
  /\ anchorTime > 0

\* C16 (as claimed): an event received while paused, or in every-frame mode,
\* adds no frames for the time passed: the reconciled f is the f before.
C16_ReconcileOnlyRealTime ==
  (lastStep = "event" /\ ~(pre.playing /\ pre.mode = playRealTime)) => pre.r = pre.f

\* C17 (as claimed): playPauseEvent flips playing and sets start, and nothing
\* else: f and the frame sent are the reconciled f, which on a resume is the
\* f the pause left, in both modes.
C17_ToggleKeepsFrame ==
  (lastStep = "event" /\ lastEvent = playPauseEvent)
    => /\ playing = ~pre.playing
       /\ mode = pre.mode
       /\ start = anchorTime
       /\ f = pre.r
       /\ lastEmit = pre.r
       /\ (~pre.playing => pre.r = pre.f)

\* C18 (as claimed): playRealTimeEvent and playEveryFrameEvent set mode and
\* start and nothing else: playing is as before and f is the reconciled f, so
\* while paused f is unchanged.
C18_SetModeOnlyMode ==
  (lastStep = "event" /\ lastEvent \in {playRealTimeEvent, playEveryFrameEvent})
    => /\ mode = (IF lastEvent = playRealTimeEvent THEN playRealTime ELSE playEveryFrame)
       /\ start = anchorTime
       /\ playing = pre.playing
       /\ f = pre.r
       /\ (~pre.playing => f = pre.f)

\* C19: every frame playFramer sends, after a tick or after an event, is in
\* [0, seqLen): main's drawFrame is in range and texs[drawFrame] never panics.
C19_SentFrameInRange ==
  /\ phase # "panicked"
  /\ phase = "running" =>
       /\ \A i \in 1..Len(frameQ) : frameQ[i] \in 0..(seqLen - 1)
       /\ lastEmit \in 0..(seqLen - 1)
       /\ drawFrame \in 0..(seqLen - 1)

\* C19 witness: main has taken the frame a real-time tick sent after the
\* elapsed frames ran past the end of the sequence.
C19_Witness ==
  /\ phase = "running"
  /\ lastStep = "tick"
  /\ mode = playRealTime
  /\ seqLen > 1
  /\ anchorFrame + ElapsedFrames(anchorTime, armed, fps) >= seqLen
  /\ frameQ = <<>>
  /\ drawFrame = lastEmit

\* C20: whenever no event waits on playEventChan, main's mode is playFramer's mode.
C20_ModesAgree == eventCh = NoEvent => mainMode = mode

\* C20 witness: the m key and then a seek were sent and received, a tick
\* followed, and both modes are every-frame.
C20_Witness ==
  /\ nSent = 2
  /\ eventCh = NoEvent
  /\ lastEvent = seekNextEvent
  /\ lastStep = "tick"
  /\ mainMode = playEveryFrame
  /\ mode = playEveryFrame

====
